---- MODULE Spec2Model ----
(***************************************************************************)
(* Model of preprocessing/automate_Ardena-Afif-Pratama.py: the script's    *)
(* __main__ run (load_data, preprocess_data_for_classification,            *)
(* save_combined_data) over a CSV table of typed columns.                  *)
(***************************************************************************)
EXTENDS Integers, Sequences, FiniteSets, TLC

VARIABLES pc, fileExists, rawFile, data_raw, X_processed, y_encoded,
          locals, log, outFile, exitStatus

vars == <<pc, fileExists, rawFile, data_raw, X_processed, y_encoded,
          locals, log, outFile, exitStatus>>

(***************************************************************************)
(* Bounds of the input tables.                                             *)
(***************************************************************************)
MaxCols == 3
MaxRows == 3
MaxCat == 3

(***************************************************************************)
(* Python's None, and a value that is not None.                            *)
(***************************************************************************)
None == <<>>
Some(v) == <<v>>
IsNone(o) == Len(o) = 0
Val(o) == o[1]

(***************************************************************************)
(* Names the script fixes.                                                 *)
(***************************************************************************)
TargetColumn == "Category"
IdColumn == "Customer ID"
EncodedTargetName == "Encoded_Category"

(***************************************************************************)
(* Input domain: column names, dtypes pd.read_csv infers, cell values.     *)
(* StrOrder lists the text values in Python's str order.                   *)
(***************************************************************************)
FeaturePool == {"Age", "Color"}
NamePool == {TargetColumn, IdColumn} \cup FeaturePool
DTypes == {"int64", "float64", "object", "bool"}
StrOrder == <<"A", "B", "C", "D", "E">>
Rank(s) == CHOOSE i \in 1..Len(StrOrder) : StrOrder[i] = s

Cell(dtype, k) ==
    IF dtype = "object" THEN StrOrder[k]
    ELSE IF dtype = "bool" THEN (k % 2 = 1)
    ELSE k

Patterns == [1..MaxRows -> 1..MaxCat]
DefaultPattern(c) == [r \in 1..MaxRows |-> ((r + c) % MaxCat) + 1]

ColumnOf(name, dtype, pat) ==
    [name |-> name, dtype |-> dtype,
     vals |-> [r \in 1..MaxRows |-> Cell(dtype, pat[r])]]

NameSeqs ==
    {ns \in UNION {[1..n -> NamePool] : n \in 1..MaxCols} :
        \A i, j \in 1..Len(ns) : i # j => ns[i] # ns[j]}

ShapeTables ==
    UNION {
        {[i \in 1..Len(ns) |-> ColumnOf(ns[i], ds[i], DefaultPattern(i))] :
            ds \in {d \in [1..Len(ns) -> DTypes] :
                      \A i \in 1..Len(ns) : ns[i] = IdColumn => d[i] = "int64"}}
        : ns \in NameSeqs}

ValueTables ==
    {<<ColumnOf(TargetColumn, "object", p),
       ColumnOf("Color", "object", DefaultPattern(2))>> : p \in Patterns}
    \cup
    {<<ColumnOf("Color", "object", p),
       ColumnOf(TargetColumn, "object", DefaultPattern(2))>> : p \in Patterns}
    \cup
    {<<ColumnOf("Age", "int64", p),
       ColumnOf(TargetColumn, "object", DefaultPattern(2))>> : p \in Patterns}

Tables == ShapeTables \cup ValueTables

(***************************************************************************)
(* Data frames: ordered columns and a row index.                           *)
(***************************************************************************)
NRows(cols) == IF Len(cols) = 0 THEN 0 ELSE Len(cols[1].vals)
RangeIndex(n) == [i \in 1..n |-> i - 1]
HasColumn(df, name) == \E i \in 1..Len(df.cols) : df.cols[i].name = name
GetColumn(df, name) ==
    df.cols[CHOOSE i \in 1..Len(df.cols) : df.cols[i].name = name]
DropColumn(df, name) ==
    [df EXCEPT !.cols = SelectSeq(df.cols, LAMBDA c : c.name # name)]

Msg(tag) == [tag |-> tag, a |-> 0, b |-> 0]
Msg2(tag, a, b) == [tag |-> tag, a |-> a, b |-> b]

(***************************************************************************)
(* load_data                                                               *)
(***************************************************************************)
ReadCsv(table) == [cols |-> table, index |-> RangeIndex(NRows(table))]

LoadResult(exists, table) ==
    IF ~exists THEN [df |-> None, log |-> <<Msg("FileNotFound")>>]
    ELSE IF Len(table) = 0 THEN [df |-> None, log |-> <<Msg("LoadError")>>]
    ELSE [df |-> Some(ReadCsv(table)), log |-> <<Msg("Loaded")>>]

(***************************************************************************)
(* preprocess_data_for_classification: target validation and encoding      *)
(***************************************************************************)
TargetPresent(df, target) == HasColumn(df, target)

Less(dtype, a, b) ==
    IF dtype = "object" THEN Rank(a) < Rank(b)
    ELSE IF dtype = "bool" THEN (~a /\ b)
    ELSE a < b

RECURSIVE SortSet(_, _)
SortSet(dtype, S) ==
    IF S = {} THEN <<>>
    ELSE LET m == CHOOSE x \in S : \A z \in S : ~Less(dtype, z, x)
         IN <<m>> \o SortSet(dtype, S \ {m})

ValueSet(vals) == {vals[i] : i \in 1..Len(vals)}
SortedUnique(dtype, vals) == SortSet(dtype, ValueSet(vals))
IndexOf(seq, v) == CHOOSE i \in 1..Len(seq) : seq[i] = v

RECURSIVE FirstSeen(_, _)
FirstSeen(vals, seen) ==
    IF Len(vals) = 0 THEN <<>>
    ELSE IF Head(vals) \in seen THEN FirstSeen(Tail(vals), seen)
    ELSE <<Head(vals)>> \o FirstSeen(Tail(vals), seen \cup {Head(vals)})

\* Variant: codes assigned in first-seen order instead of sorted order.
LabelEncode_FirstSeen(dtype, vals) ==
    LET classes == FirstSeen(vals, {})
    IN [i \in 1..Len(vals) |-> IndexOf(classes, vals[i]) - 1]

LabelEncode(dtype, vals) ==
    LET classes == SortedUnique(dtype, vals)
    IN [i \in 1..Len(vals) |-> IndexOf(classes, vals[i]) - 1]

\* Variant: an empty frame and a placeholder target returned instead of None.
MissingTargetResult_ReturnsEmpty(df, target) ==
    [X |-> Some([columns |-> <<>>, data |-> <<>>, index |-> df.index]),
     y |-> Some([i \in 1..Len(df.index) |-> 0]),
     locals |-> None,
     log |-> <<Msg("PreprocessStart"), Msg("MissingTargetColumn")>>]

MissingTargetResult(df, target) ==
    [X |-> None, y |-> None, locals |-> None,
     log |-> <<Msg("PreprocessStart"), Msg("MissingTargetColumn")>>]

(***************************************************************************)
(* Feature table and feature classification                                *)
(***************************************************************************)
DropTarget(df, target) == DropColumn(df, target)
\* Variant: the identifier column is left in the feature table.
DropIdentifier_Keep(X) == X

DropIdentifier(X) == IF HasColumn(X, IdColumn) THEN DropColumn(X, IdColumn) ELSE X
IdentifierLog(X) ==
    IF HasColumn(X, IdColumn) THEN Msg("IdDropped") ELSE Msg("IdNotFound")

IsNumber(dtype) == dtype \in {"int64", "float64"}
IsObject(dtype) == dtype = "object"
NamesOf(cols) == [i \in 1..Len(cols) |-> cols[i].name]
SelectNumber(X) == NamesOf(SelectSeq(X.cols, LAMBDA c : IsNumber(c.dtype)))
SelectObject(X) == NamesOf(SelectSeq(X.cols, LAMBDA c : IsObject(c.dtype)))
InSeq(seq, v) == \E i \in 1..Len(seq) : seq[i] = v
Remainder(X, num, cat) ==
    NamesOf(SelectSeq(X.cols, LAMBDA c : ~InSeq(num, c.name) /\ ~InSeq(cat, c.name)))

(***************************************************************************)
(* ColumnTransformer: StandardScaler, OneHotEncoder(drop='first'),         *)
(* remainder='passthrough'.  A scaled value (x - mean) / scale is kept     *)
(* exactly as the fraction num / sqrt(den2).                               *)
(***************************************************************************)
RECURSIVE SumSeq(_)
SumSeq(s) == IF Len(s) = 0 THEN 0 ELSE Head(s) + SumSeq(Tail(s))

StandardScale(vals) ==
    LET n == Len(vals)
        S == SumSeq(vals)
        Q == SumSeq([i \in 1..n |-> vals[i] * vals[i]])
        D == n * Q - S * S
    IN [i \in 1..n |-> [num |-> n * vals[i] - S,
                         den2 |-> IF D = 0 THEN n * n ELSE D]]

ScaledColumn(col) ==
    [kind |-> "num", src |-> col.name, cat |-> "", vals |-> StandardScale(col.vals)]

Categories(col) == SortedUnique(col.dtype, col.vals)
\* Variant: OneHotEncoder without drop='first'.
KeptCategories_All(col) == Categories(col)

KeptCategories(col) == Tail(Categories(col))
Indicator(vals, c) == [i \in 1..Len(vals) |-> IF vals[i] = c THEN 1 ELSE 0]

OneHotColumns(col) ==
    LET kept == KeptCategories(col)
    IN [k \in 1..Len(kept) |->
          [kind |-> "cat", src |-> col.name, cat |-> kept[k],
           vals |-> Indicator(col.vals, kept[k])]]

ToFloat(dtype, v) == IF dtype = "bool" THEN (IF v THEN 1 ELSE 0) ELSE v
PassthroughColumn(col) ==
    [kind |-> "pass", src |-> col.name, cat |-> "",
     vals |-> [i \in 1..Len(col.vals) |-> ToFloat(col.dtype, col.vals[i])]]

RECURSIVE Flatten(_)
Flatten(ss) == IF Len(ss) = 0 THEN <<>> ELSE Head(ss) \o Flatten(Tail(ss))

NumBlock(X, num) == [i \in 1..Len(num) |-> ScaledColumn(GetColumn(X, num[i]))]
CatBlock(X, cat) == Flatten([i \in 1..Len(cat) |-> OneHotColumns(GetColumn(X, cat[i]))])
PassBlock(X, rest) == [i \in 1..Len(rest) |-> PassthroughColumn(GetColumn(X, rest[i]))]

\* Variant: the transformers listed in the order cat, num.
FitTransform_CatFirst(X, num, cat) ==
    CatBlock(X, cat) \o NumBlock(X, num) \o PassBlock(X, Remainder(X, num, cat))

FitTransform(X, num, cat) ==
    NumBlock(X, num) \o CatBlock(X, cat) \o PassBlock(X, Remainder(X, num, cat))

(***************************************************************************)
(* Output names and the labelled feature table                             *)
(***************************************************************************)
FeatureName(name, c) == name \o "_" \o c
OheNamesOf(col) ==
    LET kept == KeptCategories(col)
    IN [k \in 1..Len(kept) |-> FeatureName(col.name, kept[k])]
OheFeatureNames(X, cat) ==
    Flatten([i \in 1..Len(cat) |-> OheNamesOf(GetColumn(X, cat[i]))])
FinalFeatureNames(X, num, cat) ==
    num \o (IF Len(cat) > 0 THEN OheFeatureNames(X, cat) ELSE <<>>)

CountCheckLog(array, names) ==
    IF Len(array) # Len(names)
    THEN <<Msg("CountMismatchWarning"),
           Msg2("CountMismatchCounts", Len(array), Len(names))>>
    ELSE <<>>

\* Variant: the matrix is cut to the number of names instead of failing.
MakeFrame_Truncate(array, names, index) ==
    Some([columns |-> names,
          data |-> SubSeq(array, 1, IF Len(names) < Len(array) THEN Len(names)
                                    ELSE Len(array)),
          index |-> index])

MakeFrame(array, names, index) ==
    IF Len(array) # Len(names) THEN None
    ELSE Some([columns |-> names, data |-> array, index |-> index])

TransformResult(df, target) ==
    LET tcol == GetColumn(df, target)
        y == LabelEncode(tcol.dtype, tcol.vals)
        X0 == DropTarget(df, target)
        X == DropIdentifier(X0)
        num == SelectNumber(X)
        cat == SelectObject(X)
        array == FitTransform(X, num, cat)
        names == FinalFeatureNames(X, num, cat)
        frame == MakeFrame(array, names, X.index)
        ok == ~IsNone(frame)
    IN [X |-> frame,
        y |-> IF ok THEN Some(y) ELSE None,
        locals |-> Some([y_encoded |-> y, X_features |-> X,
                         numerical_features |-> num,
                         categorical_features_for_ohe |-> cat,
                         X_transformed_array |-> array,
                         final_feature_names |-> names]),
        log |-> <<Msg("PreprocessStart"), Msg("TargetEncoded"), IdentifierLog(X0),
                  Msg("FeatureShape"), Msg("NumericalFeatures"),
                  Msg("CategoricalFeatures"), Msg("ApplyTransformer")>>
                \o CountCheckLog(array, names)
                \o (IF ok THEN <<Msg("PreprocessOk"), Msg("FrameShape")>>
                    ELSE <<Msg("PreprocessError")>>)]

PreprocessResult(dfo, target) ==
    IF IsNone(dfo)
    THEN [X |-> None, y |-> None, locals |-> None, log |-> <<>>]
    ELSE IF ~TargetPresent(Val(dfo), target)
    THEN MissingTargetResult(Val(dfo), target)
    ELSE TransformResult(Val(dfo), target)

(***************************************************************************)
(* save_combined_data                                                      *)
(***************************************************************************)
MakeSeries(arr, name, index) == [name |-> name, vals |-> arr, index |-> index]
SeriesAt(s, label) == s.vals[CHOOSE i \in 1..Len(s.index) : s.index[i] = label]

Concat(Xdf, s) ==
    [columns |-> Xdf.columns \o <<s.name>>,
     data |-> Xdf.data \o
              <<[kind |-> "target", src |-> s.name, cat |-> "",
                 vals |-> [i \in 1..Len(Xdf.index) |-> SeriesAt(s, Xdf.index[i])]]>>,
     index |-> Xdf.index]

\* Variant: the first data row is lost on writing.
ToCsv_SkipFirstRow(df) ==
    [header |-> df.columns,
     rows |-> Tail([i \in 1..Len(df.index) |->
                      [j \in 1..Len(df.data) |-> df.data[j].vals[i]]])]

ToCsv(df) ==
    [header |-> df.columns,
     rows |-> [i \in 1..Len(df.index) |->
                 [j \in 1..Len(df.data) |-> df.data[j].vals[i]]]]

SaveResult(Xo, yo, target_name, writable) ==
    IF IsNone(Xo) \/ IsNone(yo)
    THEN [file |-> None, log |-> <<Msg("NothingToSave")>>]
    ELSE IF ~writable
    THEN [file |-> None, log |-> <<Msg("Combined"), Msg("SaveFailed")>>]
    ELSE [file |-> Some(ToCsv(Concat(Val(Xo),
                         MakeSeries(Val(yo), target_name, Val(Xo).index)))),
          log |-> <<Msg("Combined"), Msg("Saved")>>]

ShouldSave(Xo, yo) == ~IsNone(Xo) /\ ~IsNone(yo)

Init ==
    /\ pc = "start"
    /\ fileExists \in BOOLEAN
    /\ rawFile \in (IF fileExists THEN Tables \cup {<<>>} ELSE {<<>>})
    /\ data_raw = None
    /\ X_processed = None
    /\ y_encoded = None
    /\ locals = None
    /\ log = <<Msg("Start")>>
    /\ outFile = None
    /\ exitStatus = -1

LoadData ==
    /\ pc = "start"
    /\ LET r == LoadResult(fileExists, rawFile) IN
         /\ data_raw' = r.df
         /\ log' = log \o <<Msg("Loading")>> \o r.log
    /\ pc' = "loaded"
    /\ UNCHANGED <<fileExists, rawFile, X_processed, y_encoded, locals,
                   outFile, exitStatus>>

Preprocess ==
    /\ pc = "loaded"
    /\ LET r == PreprocessResult(data_raw, TargetColumn) IN
         /\ X_processed' = r.X
         /\ y_encoded' = r.y
         /\ locals' = r.locals
         /\ log' = log \o r.log
    /\ pc' = "preprocessed"
    /\ UNCHANGED <<fileExists, rawFile, data_raw, outFile, exitStatus>>

SaveCombined ==
    /\ pc = "preprocessed"
    /\ ShouldSave(X_processed, y_encoded)
    /\ \E writable \in BOOLEAN :
         LET r == SaveResult(X_processed, y_encoded, EncodedTargetName, writable) IN
           /\ outFile' = r.file
           /\ log' = log \o r.log
    /\ pc' = "saved"
    /\ UNCHANGED <<fileExists, rawFile, data_raw, X_processed, y_encoded,
                   locals, exitStatus>>

SkipSave ==
    /\ pc = "preprocessed"
    /\ ~ShouldSave(X_processed, y_encoded)
    /\ log' = log \o <<Msg("PreprocessFailed")>>
    /\ pc' = "saved"
    /\ UNCHANGED <<fileExists, rawFile, data_raw, X_processed, y_encoded,
                   locals, outFile, exitStatus>>

Finish ==
    /\ pc = "saved"
    /\ log' = log \o <<Msg("Finished")>>
    /\ exitStatus' = 0
    /\ pc' = "done"
    /\ UNCHANGED <<fileExists, rawFile, data_raw, X_processed, y_encoded,
                   locals, outFile>>

Next == LoadData \/ Preprocess \/ SaveCombined \/ SkipSave \/ Finish

Spec == Init /\ [][Next]_vars

(***************************************************************************)
(* Vocabulary of the properties                                            *)
(***************************************************************************)
HasLog(tag) == \E i \in 1..Len(log) : log[i].tag = tag
AfterPreprocess == pc \in {"preprocessed", "saved", "done"}
Loaded == ~IsNone(data_raw)
TargetAbsent == Loaded /\ ~HasColumn(Val(data_raw), TargetColumn)
Ran == ~IsNone(locals)
L == Val(locals)
XF == L.X_features
Arr == L.X_transformed_array
Names == L.final_feature_names
Pos(name) == CHOOSE i \in 1..Len(XF.cols) : XF.cols[i].name = name
Distinct(col) == ValueSet(col.vals)
Smaller(col, v) == {w \in Distinct(col) : Less(col.dtype, w, v)}
First(col) == CHOOSE v \in Distinct(col) : Smaller(col, v) = {}
KindRank(k) == IF k = "num" THEN 1 ELSE IF k = "cat" THEN 2 ELSE 3
NameAt(c) == IF c.kind = "num" THEN c.src ELSE FeatureName(c.src, c.cat)
LaterStageLogs ==
    {"TargetEncoded", "IdDropped", "IdNotFound", "FeatureShape",
     "NumericalFeatures", "CategoricalFeatures", "ApplyTransformer",
     "PreprocessOk", "FrameShape", "Combined", "Saved"}

(***************************************************************************)
(* C1: when the target column is absent from the loaded table, the run     *)
(* reports the missing column, no later stage runs (no feature             *)
(* classification or transformation), no feature table and no target are   *)
(* returned, and no output file is written.                                *)
(***************************************************************************)
C1_MissingTargetStopsRun ==
    (AfterPreprocess /\ TargetAbsent) =>
        /\ HasLog("MissingTargetColumn")
        /\ \A t \in LaterStageLogs : ~HasLog(t)
        /\ ~Ran
        /\ IsNone(X_processed) /\ IsNone(y_encoded)
        /\ IsNone(outFile)

C1_Witness ==
    /\ pc = "done" /\ TargetAbsent
    /\ HasLog("MissingTargetColumn") /\ HasLog("PreprocessFailed")
    /\ IsNone(outFile)

(***************************************************************************)
(* C2: whenever the number of generated names differs from the width of    *)
(* the transformed matrix, the counts are reported, no labelled feature    *)
(* table is returned and no output file is written; a returned table       *)
(* always carries the full name list on the full matrix (nothing is        *)
(* truncated or padded).                                                   *)
(***************************************************************************)
CountMismatch == Ran /\ Len(Arr) # Len(Names)

C2_MismatchAborts ==
    /\ (AfterPreprocess /\ CountMismatch) =>
          /\ \E i \in 1..Len(log) :
                log[i] = Msg2("CountMismatchCounts", Len(Arr), Len(Names))
          /\ IsNone(X_processed) /\ IsNone(y_encoded)
          /\ IsNone(outFile)
    /\ ~IsNone(X_processed) =>
          /\ Val(X_processed).columns = Names
          /\ Len(Val(X_processed).data) = Len(Arr)
          /\ Len(Val(X_processed).data) = Len(Names)

C2_Witness ==
    /\ pc = "done" /\ CountMismatch
    /\ HasLog("CountMismatchWarning") /\ HasLog("PreprocessError")
    /\ IsNone(outFile)

(***************************************************************************)
(* C3: every failed run ends with a non-zero status, and only a run in     *)
(* which every stage succeeded ends with status zero.                      *)
(***************************************************************************)
RunSucceeded == ~IsNone(outFile)

C3_FailedRunNonZero ==
    pc = "done" => (exitStatus = 0 <=> RunSucceeded)

(***************************************************************************)
(* C4: every column of the feature table is in exactly one of the Numeric  *)
(* and Categorical lists: integer and floating-point columns Numeric,      *)
(* every other column Categorical.                                         *)
(***************************************************************************)
C4_ClassificationPartitions ==
    Ran => \A i \in 1..Len(XF.cols) :
        LET c == XF.cols[i] IN
          /\ InSeq(L.numerical_features, c.name) <=> IsNumber(c.dtype)
          /\ InSeq(L.categorical_features_for_ohe, c.name) <=> ~IsNumber(c.dtype)

(***************************************************************************)
(* C5: every run that transforms a feature table returns one whose column  *)
(* count is numeric + sum over categorical of (distinct - 1) + passthrough,*)
(* also when passthrough columns are present.                              *)
(***************************************************************************)
RECURSIVE SumDropFirst(_, _)
SumDropFirst(X, cat) ==
    IF Len(cat) = 0 THEN 0
    ELSE Cardinality(Distinct(GetColumn(X, Head(cat)))) - 1
         + SumDropFirst(X, Tail(cat))

ExpectedWidth ==
    Len(L.numerical_features)
    + SumDropFirst(XF, L.categorical_features_for_ohe)
    + Len(Remainder(XF, L.numerical_features, L.categorical_features_for_ohe))

C5_ColumnConservation ==
    (AfterPreprocess /\ Ran) =>
        /\ ~IsNone(X_processed)
        /\ Len(Val(X_processed).columns) = ExpectedWidth

(***************************************************************************)
(* C6: the transformed matrix holds the numeric columns in feature-table   *)
(* order, then the indicator columns grouped by source column in           *)
(* feature-table order and ordered by category inside a group, then the    *)
(* passthrough columns in feature-table order; the name at each position   *)
(* names the matrix column stored there; the written table's header is     *)
(* the names followed by the encoded-target name as the single last column.*)
(***************************************************************************)
Before(a, b) ==
    \/ KindRank(a.kind) < KindRank(b.kind)
    \/ /\ a.kind = b.kind
       /\ \/ Pos(a.src) < Pos(b.src)
          \/ a.kind = "cat" /\ a.src = b.src /\ Rank(a.cat) < Rank(b.cat)

HoldsColumn(a) ==
    LET c == GetColumn(XF, a.src) IN
      /\ a.kind = "num" => IsNumber(c.dtype) /\ a.vals = StandardScale(c.vals)
      /\ a.kind = "cat" =>
            /\ IsObject(c.dtype)
            /\ \A r \in 1..Len(c.vals) : a.vals[r] = 1 <=> c.vals[r] = a.cat
      /\ a.kind = "pass" => ~IsNumber(c.dtype) /\ ~IsObject(c.dtype)

C6_ColumnOrder ==
    /\ Ran =>
          /\ \A i, j \in 1..Len(Arr) : i < j => Before(Arr[i], Arr[j])
          /\ \A i \in 1..Len(Arr) : HoldsColumn(Arr[i])
          /\ \A i \in 1..Len(Names) :
                i <= Len(Arr) /\ Arr[i].kind # "pass" /\ Names[i] = NameAt(Arr[i])
    /\ ~IsNone(outFile) =>
          /\ Val(outFile).header = Names \o <<EncodedTargetName>>
          /\ \A r \in 1..Len(Val(outFile).rows) :
                /\ Len(Val(outFile).rows[r]) = Len(Names) + 1
                /\ \A j \in 1..Len(Names) :
                      Val(outFile).rows[r][j] = Arr[j].vals[r]

C6_Witness ==
    /\ pc = "done" /\ ~IsNone(outFile)
    /\ \E i, j \in 1..Len(XF.cols) :
          /\ i < j
          /\ IsObject(XF.cols[i].dtype) /\ IsNumber(XF.cols[j].dtype)
          /\ Val(outFile).header[1] = XF.cols[j].name
          /\ Len(Val(outFile).header) >= 3

(***************************************************************************)
(* C7: label encoding maps the k distinct target values one-to-one onto    *)
(* 0..k-1 in sorted order: equal values get equal codes, different values  *)
(* different codes, every code in 0..k-1 is used, a smaller value gets a   *)
(* smaller code; the code of a value is the number of distinct smaller     *)
(* values, so the encoding is a function of the input alone.               *)
(***************************************************************************)
TargetCol == GetColumn(Val(data_raw), TargetColumn)

C7_LabelEncoding ==
    Ran =>
        LET t == TargetCol
            y == L.y_encoded
            k == Cardinality(Distinct(t))
        IN /\ Len(y) = Len(t.vals)
           /\ \A i, j \in 1..Len(y) :
                 /\ t.vals[i] = t.vals[j] <=> y[i] = y[j]
                 /\ Less(t.dtype, t.vals[i], t.vals[j]) => y[i] < y[j]
           /\ {y[i] : i \in 1..Len(y)} = 0..(k - 1)
           /\ \A i \in 1..Len(y) : y[i] = Cardinality(Smaller(t, t.vals[i]))
           /\ ~IsNone(y_encoded) => Val(y_encoded) = y

C7_Witness ==
    /\ pc = "done" /\ Ran /\ ~IsNone(outFile)
    /\ TargetCol.dtype = "object"
    /\ SubSeq(TargetCol.vals, 1, 3) = <<"B", "A", "B">>
    /\ SubSeq(Val(y_encoded), 1, 3) = <<1, 0, 1>>

(***************************************************************************)
(* C8: a successful run writes exactly one row per input row, in input     *)
(* order: the transformed feature table keeps the feature table's row      *)
(* index, and output row i holds the features of input row i and the code  *)
(* of input row i's target value.                                          *)
(***************************************************************************)
RowHolds(row, r) ==
    /\ \A j \in 1..Len(Arr) :
          LET c == GetColumn(Val(data_raw), Arr[j].src) IN
            /\ Arr[j].kind = "cat" => (row[j] = 1 <=> c.vals[r] = Arr[j].cat)
            /\ Arr[j].kind = "num" =>
                  row[j].num = Len(c.vals) * c.vals[r] - SumSeq(c.vals)
    /\ row[Len(row)] = Cardinality(Smaller(TargetCol, TargetCol.vals[r]))

C8_RowConservation ==
    /\ ~IsNone(X_processed) =>
          /\ Val(X_processed).index = XF.index
          /\ Val(X_processed).index = Val(data_raw).index
          /\ Len(Val(y_encoded)) = Len(Val(X_processed).index)
    /\ ~IsNone(outFile) =>
          /\ Len(Val(outFile).rows) = NRows(rawFile)
          /\ \A r \in 1..Len(Val(outFile).rows) : RowHolds(Val(outFile).rows[r], r)

C8_Witness ==
    /\ pc = "done" /\ ~IsNone(outFile)
    /\ Len(Val(outFile).rows) = MaxRows
    /\ \E r, q \in 1..MaxRows :
          Val(outFile).rows[r][Len(Val(outFile).header)]
            # Val(outFile).rows[q][Len(Val(outFile).header)]

(***************************************************************************)
(* C9: the feature table is the raw table without the target column and    *)
(* without 'Customer ID', other columns kept in order with their values;   *)
(* neither dropped column is classified, transformed or named; a table     *)
(* without 'Customer ID' is processed like any other.                      *)
(***************************************************************************)
Dropped == {TargetColumn, IdColumn}

C9_FeatureTable ==
    /\ (AfterPreprocess /\ Loaded /\ ~TargetAbsent) =>
          /\ Ran
          /\ HasColumn(Val(data_raw), IdColumn) <=> HasLog("IdDropped")
          /\ ~HasColumn(Val(data_raw), IdColumn) <=> HasLog("IdNotFound")
    /\ Ran =>
          /\ XF.cols = SelectSeq(Val(data_raw).cols, LAMBDA c : c.name \notin Dropped)
          /\ \A n \in Dropped :
                /\ ~InSeq(L.numerical_features, n)
                /\ ~InSeq(L.categorical_features_for_ohe, n)
                /\ \A j \in 1..Len(Arr) : Arr[j].src # n
                /\ \A i \in 1..Len(Names) : Names[i] # n
          /\ \A i \in 1..Len(Names) :
                \E j \in 1..Len(XF.cols) :
                    \/ Names[i] = XF.cols[j].name
                    \/ \E c \in Distinct(XF.cols[j]) :
                          /\ IsObject(XF.cols[j].dtype)
                          /\ Names[i] = FeatureName(XF.cols[j].name, c)

C9_Witness ==
    /\ pc = "done" /\ ~IsNone(outFile)
    /\ HasColumn(Val(data_raw), IdColumn)
    /\ HasLog("IdDropped")
    /\ Len(XF.cols) = Len(Val(data_raw).cols) - 2

(***************************************************************************)
(* C10: every categorical column drops its first category in sorted order  *)
(* and emits one indicator per other observed category, named              *)
(* <column>_<category>; the dropped category has no name, a column with    *)
(* one observed category emits nothing, and a row sets at most one         *)
(* indicator per source column (none when it holds the dropped category).  *)
(***************************************************************************)
IndicatorsOf(name) == {j \in 1..Len(Arr) : Arr[j].kind = "cat" /\ Arr[j].src = name}

C10_OneHotPolicy ==
    Ran => \A i \in 1..Len(XF.cols) :
        LET c == XF.cols[i]
            J == IndicatorsOf(c.name)
            kept == Distinct(c) \ {First(c)}
        IN IF ~IsObject(c.dtype) THEN J = {}
           ELSE /\ Cardinality(J) = Cardinality(Distinct(c)) - 1
                /\ {Arr[j].cat : j \in J} = kept
                /\ \A j \in J : j <= Len(Names)
                /\ {Names[j] : j \in J} = {FeatureName(c.name, v) : v \in kept}
                /\ \A k \in 1..Len(Names) : Names[k] # FeatureName(c.name, First(c))
                /\ \A r \in 1..Len(c.vals) :
                      {j \in J : Arr[j].vals[r] = 1}
                        = {j \in J : Arr[j].cat = c.vals[r]}
                /\ \A r \in 1..Len(c.vals) :
                      Cardinality({j \in J : Arr[j].vals[r] = 1})
                        = (IF c.vals[r] = First(c) THEN 0 ELSE 1)

C10_Witness ==
    /\ pc = "done" /\ ~IsNone(outFile)
    /\ \E i \in 1..Len(XF.cols) :
          /\ IsObject(XF.cols[i].dtype)
          /\ Cardinality(Distinct(XF.cols[i])) = 3
          /\ Cardinality(IndicatorsOf(XF.cols[i].name)) = 2
    /\ \E i \in 1..Len(XF.cols) :
          /\ IsObject(XF.cols[i].dtype)
          /\ Cardinality(Distinct(XF.cols[i])) = 3
          /\ \E r \in 1..MaxRows : XF.cols[i].vals[r] = First(XF.cols[i])
====
